---- MODULE Spec2Model ----
(***************************************************************************)
(* Model of cairo-verifier/src/utils.rs: the proof artifact codec          *)
(* (write_proof / verify_proof) and the program-output decoder             *)
(* (DeserializableHyleOutput for HyleOutput<Event>).                       *)
(*                                                                         *)
(* A panic (unwrap/expect on an error, panic!, an out-of-range index or    *)
(* slice) is an outcome of its own, kind "panic", distinct from a returned *)
(* Err value.  External collaborators (bincode, the prover, the verifier,  *)
(* serde_json) are nondeterministic choices of the actions.                *)
(***************************************************************************)
EXTENDS Integers, Sequences, FiniteSets, TLC

VARIABLES file, pcall, pret, vret, input, dret, data, bret

vars == <<file, pcall, pret, vret, input, dret, data, bret>>

(***************************************************************************)
(* Bounds of the model.                                                    *)
(***************************************************************************)
MaxFileLen == 9      \* longest arbitrary file handed to verify_proof, in bytes
MaxPayloadLen == 2   \* longest explicitly enumerated frame payload, in bytes
MaxTail == 7         \* most tokens after tx_hash in an enumerated raw output
MaxData == 5         \* longest token stream handed to the byte-array decoder
MaxBrackets == 2     \* most characters put before and after the tokens

(***************************************************************************)
(* usize on a 64-bit target, kept as <<hi, lo>> = hi * 2^16 + lo with      *)
(* lo < 2^16, so that lengths of 2^32 and more stay exact.  A u32 is the   *)
(* same pair with hi < 2^16.                                               *)
(***************************************************************************)
Half == 65536

U(n) == <<n \div Half, n % Half>>

UAdd(a, b) ==
    LET lo == a[2] + b[2]
    IN  <<a[1] + b[1] + (lo \div Half), lo % Half>>

ULess(a, b) == a[1] < b[1] \/ (a[1] = b[1] /\ a[2] < b[2])

ULeq(a, b) == ~ULess(b, a)

\* a - b for b <= a
USub(a, b) ==
    IF a[2] >= b[2] THEN <<a[1] - b[1], a[2] - b[2]>>
    ELSE <<a[1] - b[1] - 1, a[2] + Half - b[2]>>

\* `x as u32` of a usize: the low 32 bits
AsU32(a) == <<a[1] % Half, a[2]>>

\* u32::to_le_bytes
ToLeBytes(u) == <<u[2] % 256, u[2] \div 256, u[1] % 256, u[1] \div 256>>

\* u32::from_le_bytes(..) as usize
FromLeBytes(b) == <<b[3] + 256 * b[4], b[1] + 256 * b[2]>>

(***************************************************************************)
(* Byte buffers (Vec<u8>, &[u8]) are run-length encoded: a sequence of     *)
(* runs <<byte, count>>, count a usize > 0, adjacent runs of different     *)
(* bytes.  The encoding is canonical, so equal buffers are equal values.   *)
(***************************************************************************)
RECURSIVE BLen(_)
BLen(buf) == IF buf = <<>> THEN U(0) ELSE UAdd(buf[1][2], BLen(Tail(buf)))

\* Vec::extend
BCat(a, b) ==
    IF a = <<>> THEN b
    ELSE IF b = <<>> THEN a
    ELSE IF a[Len(a)][1] = b[1][1]
         THEN SubSeq(a, 1, Len(a) - 1)
              \o << <<b[1][1], UAdd(a[Len(a)][2], b[1][2])>> >>
              \o Tail(b)
         ELSE a \o b

\* &buf[..k] for k <= len
RECURSIVE BTake(_, _)
BTake(buf, k) ==
    IF k = U(0) \/ buf = <<>> THEN <<>>
    ELSE IF ULeq(buf[1][2], k)
         THEN <<buf[1]>> \o BTake(Tail(buf), USub(k, buf[1][2]))
         ELSE << <<buf[1][1], k>> >>

\* &buf[k..] for k <= len
RECURSIVE BDrop(_, _)
BDrop(buf, k) ==
    IF k = U(0) \/ buf = <<>> THEN buf
    ELSE IF ULeq(buf[1][2], k)
         THEN BDrop(Tail(buf), USub(k, buf[1][2]))
         ELSE << <<buf[1][1], USub(buf[1][2], k)>> >> \o Tail(buf)

\* &buf[a..b] for a <= b <= len
Slice(buf, a, b) == BTake(BDrop(buf, a), USub(b, a))

\* the buffer holding the bytes of the sequence s
RECURSIVE Bytes(_)
Bytes(s) ==
    IF s = <<>> THEN <<>>
    ELSE BCat(<< <<s[1], U(1)>> >>, Bytes(Tail(s)))

\* the bytes of a short buffer, one by one (the [u8; 4] of try_into)
RECURSIVE Expand(_)
Expand(buf) ==
    IF buf = <<>> THEN <<>>
    ELSE IF buf[1][2] = U(1) THEN <<buf[1][1]>> \o Expand(Tail(buf))
    ELSE <<buf[1][1]>>
         \o Expand(<< <<buf[1][1], USub(buf[1][2], U(1))>> >> \o Tail(buf))

(***************************************************************************)
(* Text.  A &str is a sequence of one-character strings; a String built    *)
(* by String::from_utf8 is kept as its UTF-8 bytes.                        *)
(***************************************************************************)
Digits == <<"0", "1", "2", "3", "4", "5", "6", "7", "8", "9">>

HexDigits == Digits \o <<"a", "b", "c", "d", "e", "f">>

IsDigit(c) == \E i \in 1..Len(Digits) : Digits[i] = c

DigitVal(c) == (CHOOSE i \in 1..Len(Digits) : Digits[i] = c) - 1

\* the value of a hexadecimal digit, -1 for any other character
HexVal(c) ==
    IF \E i \in 1..Len(HexDigits) : HexDigits[i] = c
    THEN (CHOOSE i \in 1..Len(HexDigits) : HexDigits[i] = c) - 1
    ELSE -1

AllDigits(ds) == ds # <<>> /\ \A i \in 1..Len(ds) : IsDigit(ds[i])

RECURSIVE DecVal(_)
DecVal(ds) ==
    IF ds = <<>> THEN 0
    ELSE 10 * DecVal(SubSeq(ds, 1, Len(ds) - 1)) + DigitVal(ds[Len(ds)])

\* str::parse::<u32 | u64 | usize>: an optional "+", then one or more digits;
\* -1 stands for Err.  Every token of the model is below 2^31, so the
\* PosOverflow error of the three widths is out of the model's bounds.
ParseUnsigned(tok) ==
    LET ds == IF tok # <<>> /\ tok[1] = "+" THEN Tail(tok) ELSE tok
    IN  IF AllDigits(ds) THEN DecVal(ds) ELSE -1

\* str::parse::<BigInt>: an optional "-" or "+", then one or more digits
ParseBigInt(tok) ==
    LET neg == tok # <<>> /\ tok[1] = "-" /\ (Len(tok) = 1 \/ tok[2] # "+")
        s   == IF neg THEN Tail(tok) ELSE tok
        ds  == IF s # <<>> /\ s[1] = "+" /\ (Len(s) = 1 \/ s[2] # "+")
               THEN Tail(s) ELSE s
    IN  IF AllDigits(ds)
        THEN [ok |-> TRUE, neg |-> neg, mag |-> DecVal(ds)]
        ELSE [ok |-> FALSE, neg |-> FALSE, mag |-> 0]

RECURSIVE HexOf(_)
HexOf(n) ==
    IF n < 16 THEN <<HexDigits[n + 1]>>
    ELSE HexOf(n \div 16) \o <<HexDigits[(n % 16) + 1]>>

\* format!("{:x}", int)
FormatHex(int) ==
    IF int.neg /\ int.mag # 0 THEN <<"-">> \o HexOf(int.mag) ELSE HexOf(int.mag)

\* hex::decode
HexDecode(h) ==
    IF Len(h) % 2 # 0 \/ \E i \in 1..Len(h) : HexVal(h[i]) = -1
    THEN [ok |-> FALSE, v |-> <<>>]
    ELSE [ok |-> TRUE,
          v  |-> [i \in 1..(Len(h) \div 2) |->
                    16 * HexVal(h[2 * i - 1]) + HexVal(h[2 * i])]]

Cont(b, i) == i <= Len(b) /\ b[i] \in 128..191

\* the check of String::from_utf8
RECURSIVE ValidUtf8(_)
ValidUtf8(b) ==
    IF b = <<>> THEN TRUE
    ELSE LET c == b[1]
             n == IF c < 128 THEN 1
                  ELSE IF c \in 194..223 /\ Cont(b, 2) THEN 2
                  ELSE IF c = 224 /\ Len(b) >= 2 /\ b[2] \in 160..191 /\ Cont(b, 3) THEN 3
                  ELSE IF c \in (225..236) \cup {238, 239} /\ Cont(b, 2) /\ Cont(b, 3) THEN 3
                  ELSE IF c = 237 /\ Len(b) >= 2 /\ b[2] \in 128..159 /\ Cont(b, 3) THEN 3
                  ELSE IF c = 240 /\ Len(b) >= 2 /\ b[2] \in 144..191
                          /\ Cont(b, 3) /\ Cont(b, 4) THEN 4
                  ELSE IF c \in 241..243 /\ Cont(b, 2) /\ Cont(b, 3) /\ Cont(b, 4) THEN 4
                  ELSE IF c = 244 /\ Len(b) >= 2 /\ b[2] \in 128..143
                          /\ Cont(b, 3) /\ Cont(b, 4) THEN 4
                  ELSE 0
         IN  n > 0 /\ ValidUtf8(SubSeq(b, n + 1, Len(b)))

\* i_to_w; ok = FALSE is the panic of one of its three expect calls
I_to_w(s) ==
    LET int == ParseBigInt(s)
        hex == HexDecode(FormatHex(int))
    IN  IF ~int.ok THEN [ok |-> FALSE, v |-> <<>>]
        ELSE IF ~hex.ok THEN [ok |-> FALSE, v |-> <<>>]
        ELSE IF ~ValidUtf8(hex.v) THEN [ok |-> FALSE, v |-> <<>>]
        ELSE [ok |-> TRUE, v |-> hex.v]

\* Vec::remove(idx) for idx < len: the vector without its element at idx
VecRemove(v, idx) == SubSeq(v, 1, idx) \o SubSeq(v, idx + 2, Len(v))

Zero == <<"0">>

\* the for loop of deserialize_cairo_bytesarray, k iterations left
RECURSIVE WordLoop(_, _, _)
WordLoop(d, k, word) ==
    IF k = 0 THEN [ok |-> TRUE, word |-> word, data |-> d]
    ELSE IF d = <<>> THEN [ok |-> FALSE, word |-> <<>>, data |-> <<>>]
    ELSE IF d[1] = Zero THEN WordLoop(VecRemove(d, 0), k - 1, word)
    ELSE LET w == I_to_w(d[1])
         IN  IF ~w.ok THEN [ok |-> FALSE, word |-> <<>>, data |-> <<>>]
             ELSE WordLoop(VecRemove(d, 0), k - 1, word \o w.v)

\* the index of the pending_word_len token once the count token is removed
\* (variant: the index taken one too low)
LenIndexOffByOne(pending_word) == pending_word
LenIndex(pending_word) == pending_word + 1

\* the number of iterations of the for loop, 0..pending_word+1
\* (variant: one iteration too few)
WordCountShort(pending_word) == pending_word
WordCount(pending_word) == pending_word + 1

\* deserialize_cairo_bytesarray(&mut data): ok = FALSE is a panic, else word
\* is the returned String and data the vector it leaves behind
DeserializeCairoBytesarray(d) ==
    IF d = <<>> THEN [ok |-> FALSE, word |-> <<>>, data |-> <<>>]
    ELSE LET pending_word == ParseUnsigned(d[1])
             d1 == VecRemove(d, 0)
         IN  IF pending_word = -1 \/ LenIndex(pending_word) >= Len(d1)
             THEN [ok |-> FALSE, word |-> <<>>, data |-> <<>>]
             ELSE IF ParseUnsigned(d1[LenIndex(pending_word) + 1]) = -1
             THEN [ok |-> FALSE, word |-> <<>>, data |-> <<>>]
             ELSE WordLoop(VecRemove(d1, LenIndex(pending_word)),
                           WordCount(pending_word), <<>>)

(***************************************************************************)
(* The program-output decoder.                                             *)
(***************************************************************************)
IsBracket(c) == c = "[" \/ c = "]"

\* strips at most one leading "[" and at most one trailing "]"
TrimSingle(s) ==
    LET a == IF s # <<>> /\ s[1] = "[" THEN Tail(s) ELSE s
    IN  IF a # <<>> /\ a[Len(a)] = "]" THEN SubSeq(a, 1, Len(a) - 1) ELSE a

\* str::trim_matches(|c| c == '[' || c == ']')
RECURSIVE TrimMatches(_)
TrimMatches(s) ==
    IF s = <<>> THEN s
    ELSE IF IsBracket(s[1]) THEN TrimMatches(Tail(s))
    ELSE IF IsBracket(s[Len(s)]) THEN TrimMatches(SubSeq(s, 1, Len(s) - 1))
    ELSE s

IsSpace(c) == c = " "

\* str::split_whitespace().collect(): cur is the token being read
RECURSIVE SplitLoop(_, _)
SplitLoop(s, cur) ==
    IF s = <<>> THEN (IF cur = <<>> THEN <<>> ELSE <<cur>>)
    ELSE IF IsSpace(s[1])
         THEN (IF cur = <<>> THEN <<>> ELSE <<cur>>) \o SplitLoop(Tail(s), <<>>)
         ELSE SplitLoop(Tail(s), Append(cur, s[1]))

SplitWhitespace(s) == SplitLoop(s, <<>>)

\* the byte of a character of the model's alphabet
AsciiOf(c) ==
    IF IsDigit(c) THEN 48 + DigitVal(c)
    ELSE IF c = "[" THEN 91
    ELSE IF c = "]" THEN 93
    ELSE IF c = "+" THEN 43
    ELSE IF c = "-" THEN 45
    ELSE IF c = " " THEN 32
    ELSE 120

\* String::as_bytes().to_vec()
AsBytes(tok) == [i \in 1..Len(tok) |-> AsciiOf(tok[i])]

\* Option<T>: <<>> is None, <<v>> is Some(v)
\* (variant: the score stored in the amount field)
ScoreEventSwapped(score) ==
    [from |-> <<>>, to |-> <<>>, amount |-> <<score>>, score |-> <<>>]
\* Event { score: Some(score), ..Default::default() }
ScoreEvent(score) ==
    [from |-> <<>>, to |-> <<>>, amount |-> <<>>, score |-> <<score>>]

\* Event { from: Some(from), to: Some(to), amount: Some(amount), ..Default::default() }
TransferEvent(from, to, amount) ==
    [from |-> <<from>>, to |-> <<to>>, amount |-> <<amount>>, score |-> <<>>]

HyleOutput(version, initial_state, next_state, origin, caller, tx_hash, ev) ==
    [version |-> version,
     initial_state |-> AsBytes(initial_state),
     next_state |-> AsBytes(next_state),
     origin |-> origin,
     caller |-> caller,
     block_number |-> 0,
     block_time |-> 0,
     tx_hash |-> AsBytes(tx_hash),
     program_outputs |-> ev]

\* What one call of deserialize leaves: kind "ok" with the record in out, or
\* kind "panic".  trimmed and tokens are the locals trimmed and parts before
\* any token is removed; remaining and tail are parts.len() and parts at the
\* match (-1 and <<>> when the match is not reached); parts is the vector at
\* the return.
DResult(kind, out, trimmed, tokens, tail, reached, parts) ==
    [kind |-> kind, out |-> out, trimmed |-> trimmed, tokens |-> tokens,
     remaining |-> IF reached THEN Len(tail) ELSE -1,
     tail |-> tail, parts |-> parts]

\* the match on parts.len(): p is parts once tx_hash is removed
MatchLen(p, trimmed, tokens, version, initial_state, next_state, origin, caller, tx_hash) ==
    LET Panic == DResult("panic", <<>>, trimmed, tokens, p, TRUE, <<>>)
        Ok(ev, rest) ==
            DResult("ok",
                    <<HyleOutput(version, initial_state, next_state,
                                 origin, caller, tx_hash, ev)>>,
                    trimmed, tokens, p, TRUE, rest)
    IN  IF Len(p) = 1
        THEN LET score == ParseUnsigned(p[1])
             IN  IF score = -1 THEN Panic
                 ELSE Ok(ScoreEvent(score), VecRemove(p, 0))
        ELSE IF Len(p) = 7
        THEN LET from == DeserializeCairoBytesarray(p)
                 to   == DeserializeCairoBytesarray(from.data)
             IN  IF ~from.ok THEN Panic
                 ELSE IF ~to.ok THEN Panic
                 ELSE IF to.data = <<>> THEN Panic
                 ELSE IF ParseUnsigned(to.data[1]) = -1 THEN Panic
                 ELSE Ok(TransferEvent(from.word, to.word,
                                       ParseUnsigned(to.data[1])),
                         VecRemove(to.data, 0))
        ELSE Panic

\* <HyleOutput<Event> as DeserializableHyleOutput>::deserialize(input)
Deserialize(in) ==
    LET trimmed == TrimMatches(in)
        parts   == SplitWhitespace(trimmed)
        Panic   == DResult("panic", <<>>, trimmed, parts, <<>>, FALSE, <<>>)
        p1 == VecRemove(parts, 0)
        p2 == VecRemove(p1, 0)
        p3 == VecRemove(p2, 0)
    IN  IF parts = <<>> THEN Panic
        ELSE IF ParseUnsigned(parts[1]) = -1 THEN Panic
        ELSE IF p1 = <<>> THEN Panic
        ELSE IF p2 = <<>> THEN Panic
        ELSE LET version == ParseUnsigned(parts[1])
                 initial_state == p1[1]
                 next_state == p2[1]
                 origin == DeserializeCairoBytesarray(p3)
                 caller == DeserializeCairoBytesarray(origin.data)
             IN  IF ~origin.ok THEN Panic
                 ELSE IF ~caller.ok THEN Panic
                 ELSE IF caller.data = <<>> THEN Panic
                 ELSE MatchLen(VecRemove(caller.data, 0), trimmed, parts,
                               version, initial_state, next_state,
                               origin.word, caller.word, caller.data[1])

(***************************************************************************)
(* The artifact writer.                                                    *)
(***************************************************************************)
\* bytes.extend((payload.len() as u32).to_le_bytes()); bytes.extend(payload)
Frame(payload) == BCat(Bytes(ToLeBytes(AsU32(BLen(payload)))), payload)

\* write_proof: proof_bytes and pub_inputs_bytes are what bincode encodes the
\* proof and the public inputs to, program_output_bytes what it encodes the
\* decoded program output to
WriteProof(proof_bytes, pub_inputs_bytes, output, program_output_bytes) ==
    LET bytes == BCat(Frame(proof_bytes), Frame(pub_inputs_bytes))
        program_output == Deserialize(output)
    IN  IF program_output.kind = "panic"
        THEN [kind |-> "panic", bytes |-> <<>>]
        ELSE [kind |-> "Ok", bytes |-> BCat(bytes, program_output_bytes)]

PResult(kind, msg, bytes, proof_bytes, pub_inputs_bytes, program_output_bytes) ==
    [kind |-> kind, msg |-> msg, bytes |-> bytes, proof_bytes |-> proof_bytes,
     pub_inputs_bytes |-> pub_inputs_bytes,
     program_output_bytes |-> program_output_bytes]

\* prove: gen is what generate_proof_from_trace does with the trace and the
\* memory ("panic" for its expect calls, "none" for a prover error)
Prove(output, gen, proof_bytes, pub_inputs_bytes, program_output_bytes) ==
    IF gen = "panic" THEN PResult("panic", "", <<>>, <<>>, <<>>, <<>>)
    ELSE IF gen = "none"
    THEN PResult("Err", "Error generation prover args", <<>>, <<>>, <<>>, <<>>)
    ELSE LET w == WriteProof(proof_bytes, pub_inputs_bytes, output,
                             program_output_bytes)
         IN  IF w.kind = "panic"
             THEN PResult("panic", "", <<>>, <<>>, <<>>, <<>>)
             ELSE PResult("Ok", "", w.bytes, proof_bytes, pub_inputs_bytes,
                          program_output_bytes)

(***************************************************************************)
(* The artifact reader.                                                    *)
(***************************************************************************)
\* What one call of verify_proof leaves.  content is program_content (<<>>
\* when the file could not be read); proof, pub_inputs and program_output are
\* the three slices, each <<>> until the call has taken it; decoded counts
\* the bincode decodes that succeeded; verdict is what verify_cairo_proof
\* returned, "none" when it was not called; value is the Ok string.
VResult(kind, msg, content, proof, pub_inputs, program_output, decoded, verdict, value) ==
    [kind |-> kind, msg |-> msg, content |-> content, proof |-> proof,
     pub_inputs |-> pub_inputs, program_output |-> program_output,
     decoded |-> decoded, verdict |-> verdict, value |-> value]

ReadError == "Error reading proof from file"

\* serde_json::to_string of the record decoded from program_output_bytes
Json(program_output_bytes) == <<"json", program_output_bytes>>

\* lines 62-67: the branch on the verifier's answer
\* (variant: the answer ignored)
VerdictIgnored(verified, ok, err) == ok
Verdict(verified, ok, err) == IF verified THEN ok ELSE err

\* verify_proof: f is what std::fs::read gives (<<>> for Err, <<bytes>> for
\* Ok), decProof, decPub and decOut say whether bincode decodes the three
\* sections, verified is verify_cairo_proof's answer, jsonOk whether
\* serde_json::to_string succeeds
VerifyProof(f, decProof, decPub, decOut, verified, jsonOk) ==
    IF f = <<>>
    THEN VResult("Err", "Error opening file", f, <<>>, <<>>, <<>>, 0, "none", <<>>)
    ELSE IF ULess(BLen(f[1]), U(8))
    THEN VResult("Err", ReadError, f, <<>>, <<>>, <<>>, 0, "none", <<>>)
    ELSE
    LET proof_len == FromLeBytes(Expand(Slice(f[1], U(0), U(4))))
        bytes     == BDrop(f[1], U(4))
    IN
    IF ULess(BLen(bytes), proof_len)
    THEN VResult("Err", ReadError, f, <<>>, <<>>, <<>>, 0, "none", <<>>)
    ELSE
    LET proof == Slice(bytes, U(0), proof_len)
        at    == UAdd(proof_len, U(4))
    IN
    IF ~decProof
    THEN VResult("Err", ReadError, f, <<proof>>, <<>>, <<>>, 0, "none", <<>>)
    ELSE IF ULess(BLen(bytes), at)
    THEN VResult("panic", "", f, <<proof>>, <<>>, <<>>, 1, "none", <<>>)
    ELSE
    LET pub_inputs_len == FromLeBytes(Expand(Slice(bytes, proof_len, at)))
        end == UAdd(at, pub_inputs_len)
    IN
    IF ULess(BLen(bytes), end)
    THEN VResult("panic", "", f, <<proof>>, <<>>, <<>>, 1, "none", <<>>)
    ELSE
    LET pub_inputs_bytes == Slice(bytes, at, end)
        program_output_bytes == BDrop(bytes, end)
    IN
    IF ~decPub
    THEN VResult("Err", ReadError, f, <<proof>>, <<pub_inputs_bytes>>, <<>>,
                 1, "none", <<>>)
    ELSE IF ~decOut
    THEN VResult("Err", ReadError, f, <<proof>>, <<pub_inputs_bytes>>,
                 <<program_output_bytes>>, 2, "none", <<>>)
    ELSE
    Verdict(verified,
            IF jsonOk
            THEN VResult("Ok", "", f, <<proof>>, <<pub_inputs_bytes>>,
                         <<program_output_bytes>>, 3,
                         IF verified THEN "true" ELSE "false",
                         <<Json(program_output_bytes)>>)
            ELSE VResult("Err", "json", f, <<proof>>, <<pub_inputs_bytes>>,
                         <<program_output_bytes>>, 3,
                         IF verified THEN "true" ELSE "false", <<>>),
            VResult("Err", ReadError, f, <<proof>>, <<pub_inputs_bytes>>,
                    <<program_output_bytes>>, 3, "false", <<>>))

(***************************************************************************)
(* Inputs.                                                                 *)
(***************************************************************************)
SeqsUpTo(S, n) == UNION {[1..k -> S] : k \in 0..n}

ByteVals == {0, 2}

\* the contents a file at proof_path may have
FileContents == {Bytes(b) : b \in SeqsUpTo(ByteVals, MaxFileLen)}

\* 2^32 zero bytes
Huge == << <<0, <<Half, 0>> >> >>

\* the encodings of a proof or of the public inputs: short ones, and ones of
\* 2^32 bytes and more
Payloads ==
    {Bytes(b) : b \in SeqsUpTo(ByteVals, MaxPayloadLen)}
    \cup {BCat(Huge, Bytes(b)) : b \in SeqsUpTo(ByteVals, 1)}

\* the encodings of a program-output record
OutputBytes == {Bytes(b) : b \in SeqsUpTo(ByteVals, 1)}

RECURSIVE Join(_)
Join(toks) ==
    IF toks = <<>> THEN <<>>
    ELSE IF Len(toks) = 1 THEN toks[1]
    ELSE toks[1] \o <<" ">> \o Join(Tail(toks))

Raw(lead, toks, trail) == lead \o Join(toks) \o trail

T1 == <<"1">>
T97 == <<"9", "7">>
T24930 == <<"2", "4", "9", "3", "0">>
T255 == <<"2", "5", "5">>
TX == <<"x">>

\* version, initial_state, next_state, origin "a", caller "aba", tx_hash
GoodPrefix ==
    <<T1, <<"5">>, <<"6">>, Zero, T97, T1, T1, T24930, T97, <<"3">>, <<"9">>>>

\* the same with empty origin and caller and tx_hash 0
ZeroPrefix ==
    <<T1, <<"5">>, <<"6">>, Zero, Zero, Zero, Zero, Zero, Zero, Zero>>

ByteArrays ==
    {<<Zero, Zero, Zero>>, <<Zero, T97, T1>>, <<T1, T24930, T97, <<"3">>>>,
     <<Zero, T255, T1>>}

Prefixes ==
    {<<v, i, <<"6">>>> \o o \o c \o <<<<"9">>>> :
        v \in {T1, TX}, i \in {<<"5">>, <<"[", "5", "]">>},
        o \in ByteArrays, c \in ByteArrays}

Tails == SeqsUpTo({Zero, T1, T97}, MaxTail)

FewTails ==
    {<<<<"4", "2">>>>, <<TX>>, <<Zero, Zero, T97>>,
     <<Zero, T97, T1, Zero, T24930, <<"2">>, <<"7">>>>}

Brackets == SeqsUpTo({"[", "]", " "}, MaxBrackets)

\* the raw program outputs handed to deserialize
Inputs ==
    {Raw(<<"[">>, q \o t, <<"]">>) : q \in {GoodPrefix, ZeroPrefix}, t \in Tails}
    \cup {Raw(<<"[">>, q \o t, <<"]">>) : q \in Prefixes, t \in FewTails}
    \cup {Raw(l, q \o t, r) :
            l \in Brackets, r \in Brackets,
            q \in {GoodPrefix, <<T1, <<"[", "5", "]">>>> \o SubSeq(GoodPrefix, 3, 11)},
            t \in {<<<<"4", "2">>>>, <<Zero, Zero, T97>>}}
    \cup {Raw(<<"[">>, SubSeq(GoodPrefix, 1, k), <<"]">>) : k \in 0..Len(GoodPrefix)}

\* the token streams handed to deserialize_cairo_bytesarray
DataInputs == SeqsUpTo({Zero, T1, T97, T24930, T255, TX}, MaxData)

\* the raw program outputs handed to prove
ProveOutputs ==
    {Raw(<<"[">>, GoodPrefix \o t, <<"]">>) :
        t \in {<<<<"4", "2">>>>, <<Zero, Zero, T97>>,
               <<Zero, T97, T1, Zero, T24930, <<"2">>, <<"7">>>>}}

(***************************************************************************)
(* State.  file is what std::fs::read(proof_path) gives; pcall holds the   *)
(* output argument of a pending call of prove; input and data hold the     *)
(* argument of deserialize and of deserialize_cairo_bytesarray; pret,      *)
(* vret, dret and bret are what the four calls left (kind "none" before).  *)
(* Absent arguments and files are <<>>, present ones <<x>>.                *)
(***************************************************************************)
PNone == PResult("none", "", <<>>, <<>>, <<>>, <<>>)
VNone == VResult("none", "", <<>>, <<>>, <<>>, <<>>, 0, "none", <<>>)
DNone == DResult("none", <<>>, <<>>, <<>>, <<>>, FALSE, <<>>)
BNone == [kind |-> "none", word |-> <<>>, data |-> <<>>]

InitCodec ==
    /\ \/ /\ file \in {<<>>} \cup {<<b>> : b \in FileContents}
          /\ pcall = <<>>
       \/ /\ file = <<>>
          /\ pcall \in {<<o>> : o \in ProveOutputs}
    /\ pret = PNone
    /\ vret = VNone
    /\ input = <<>>
    /\ dret = DNone
    /\ data = <<>>
    /\ bret = BNone

InitDecode ==
    /\ file = <<>>
    /\ pcall = <<>>
    /\ pret = PNone
    /\ vret = VNone
    /\ \/ /\ input \in {<<i>> : i \in Inputs}
          /\ data = <<>>
       \/ /\ input = <<>>
          /\ data \in {<<d>> : d \in DataInputs}
    /\ dret = DNone
    /\ bret = BNone

\* prove(trace_data, memory_data, output); the artifact it returns is what
\* proof_path holds afterwards
ProveCall ==
    /\ pcall # <<>>
    /\ pret.kind = "none"
    /\ \E gen \in {"some", "none", "panic"}, P \in Payloads, I \in Payloads,
          O \in OutputBytes :
          pret' = Prove(pcall[1], gen, P, I, O)
    /\ file' = IF pret'.kind = "Ok" THEN <<pret'.bytes>> ELSE file
    /\ UNCHANGED <<pcall, vret, input, dret, data, bret>>

\* verify_proof(proof_path)
VerifyCall ==
    /\ \E decProof \in BOOLEAN, decPub \in BOOLEAN, decOut \in BOOLEAN,
          verified \in BOOLEAN, jsonOk \in BOOLEAN :
          vret' = VerifyProof(file, decProof, decPub, decOut, verified, jsonOk)
    /\ UNCHANGED <<file, pcall, pret, input, dret, data, bret>>

\* deserialize(input)
DeserializeCall ==
    /\ input # <<>>
    /\ dret.kind = "none"
    /\ dret' = Deserialize(input[1])
    /\ UNCHANGED <<file, pcall, pret, vret, input, data, bret>>

\* deserialize_cairo_bytesarray(&mut data)
BytesarrayCall ==
    /\ data # <<>>
    /\ bret.kind = "none"
    /\ LET r == DeserializeCairoBytesarray(data[1])
       IN  bret' = [kind |-> IF r.ok THEN "ok" ELSE "panic",
                    word |-> r.word, data |-> r.data]
    /\ UNCHANGED <<file, pcall, pret, vret, input, dret, data>>

NextCodec == ProveCall \/ VerifyCall

NextDecode == DeserializeCall \/ BytesarrayCall

SpecCodec == InitCodec /\ [][NextCodec]_vars

SpecDecode == InitDecode /\ [][NextDecode]_vars

(***************************************************************************)
(* Claims about the artifact codec, checked under SpecCodec.               *)
(***************************************************************************)
\* the file content b is truncated: shorter than 8 bytes, or a declared frame
\* length exceeds what follows its prefix, or fewer than 4 bytes follow the
\* proof frame
Truncated(b) ==
    \/ ULess(BLen(b), U(8))
    \/ LET proof_len == FromLeBytes(Expand(BTake(b, U(4))))
           rest == BDrop(b, U(4))
       IN  \/ ULess(BLen(rest), proof_len)
           \/ LET after == BDrop(rest, proof_len)
              IN  \/ ULess(BLen(after), U(4))
                  \/ ULess(BLen(BDrop(after, U(4))),
                           FromLeBytes(Expand(BTake(after, U(4)))))

\* C1: verify_proof returns an error value, and never aborts, for every file
\* shorter than 8 bytes and every file in which the declared proof length or
\* public-inputs length exceeds the bytes left after its prefix, the case of
\* fewer than 4 bytes left for the second prefix included.
C1_TruncatedIsError ==
    (vret.kind # "none" /\ vret.content # <<>> /\ Truncated(vret.content[1]))
        => vret.kind = "Err"

\* C2: the artifact written as u32_le(len P) | P | u32_le(len I) | I | O is
\* split by the reader into exactly (P, I, O): whichever sections the reader
\* takes are P, I and O, and it does not abort on the way.
C2_RoundTrip ==
    (pret.kind = "Ok" /\ vret.kind # "none" /\ vret.content = <<pret.bytes>>)
        => /\ vret.kind # "panic"
           /\ vret.proof = <<pret.proof_bytes>>
           /\ vret.decoded >= 1 => vret.pub_inputs = <<pret.pub_inputs_bytes>>
           /\ vret.decoded >= 2 => vret.program_output = <<pret.program_output_bytes>>

\* C3: the writer never emits a length prefix that is the payload length
\* modulo 2^32: every prefix of a written artifact is the true length of its
\* payload.
C3_PrefixIsLength ==
    pret.kind = "Ok"
        => /\ FromLeBytes(Expand(BTake(pret.bytes, U(4)))) = BLen(pret.proof_bytes)
           /\ FromLeBytes(Expand(BTake(
                  BDrop(pret.bytes, UAdd(U(4), BLen(pret.proof_bytes))), U(4))))
                = BLen(pret.pub_inputs_bytes)

\* C4: verify_proof returns Ok, with the rendering of the decoded program
\* output, only when the three sections were decoded and the verifier answered
\* true; whenever the verifier answers false it returns an error and no
\* rendering.
C4_OkOnlyWhenVerified ==
    /\ vret.kind = "Ok"
         => /\ vret.decoded = 3
            /\ vret.verdict = "true"
            /\ vret.value = <<Json(vret.program_output[1])>>
    /\ vret.verdict = "false" => (vret.kind = "Err" /\ vret.value = <<>>)

C4_Witness ==
    /\ pret.kind = "Ok"
    /\ vret.content = <<pret.bytes>>
    /\ vret.kind = "Ok"
    /\ vret.verdict = "true"

(***************************************************************************)
(* Claims about the program-output decoder, checked under SpecDecode.      *)
(***************************************************************************)
\* a token read as a word that i_to_w cannot decode: no decimal integer, an
\* odd number of hexadecimal digits, or bytes that are not UTF-8
BadWord(w) ==
    /\ w # Zero
    /\ \/ ~ParseBigInt(w).ok
       \/ Len(FormatHex(ParseBigInt(w))) % 2 = 1
       \/ ~ValidUtf8(HexDecode(FormatHex(ParseBigInt(w))).v)

\* C5 as amended: a record has exactly one event variant, fixed by the number
\* of tokens left after the fixed fields: from 1 token a Score event whose
\* score is that token as u64 (from, to, amount absent), from 7 tokens a
\* Transfer event with from, to and amount (score absent), from no other
\* count.  With 1 token left there is a record exactly when the token is a
\* u64; with 7 tokens left exactly when both word counts are 0, both length
\* tokens and the amount parse and both words decode.
C5_VariantByCount ==
    /\ dret.kind = "ok"
         => LET ev == dret.out[1].program_outputs
            IN  /\ dret.remaining \in {1, 7}
                /\ dret.remaining = 1
                     => /\ ev.score = <<ParseUnsigned(dret.tail[1])>>
                        /\ ev.from = <<>> /\ ev.to = <<>> /\ ev.amount = <<>>
                /\ dret.remaining = 7
                     => /\ ev.score = <<>>
                        /\ Len(ev.from) = 1 /\ Len(ev.to) = 1
                        /\ ev.amount = <<ParseUnsigned(dret.tail[7])>>
    /\ dret.remaining = 1
         => (dret.kind = "ok" <=> ParseUnsigned(dret.tail[1]) # -1)
    /\ dret.remaining = 7
         => (dret.kind = "ok" <=>
                /\ ParseUnsigned(dret.tail[1]) = 0
                /\ ParseUnsigned(dret.tail[4]) = 0
                /\ ParseUnsigned(dret.tail[3]) # -1
                /\ ParseUnsigned(dret.tail[6]) # -1
                /\ ParseUnsigned(dret.tail[7]) # -1
                /\ ~BadWord(dret.tail[2])
                /\ ~BadWord(dret.tail[5]))

C5_Witness ==
    /\ dret.kind = "ok"
    /\ dret.remaining = 7
    /\ dret.out[1].program_outputs.from = <<<<97>>>>
    /\ dret.out[1].program_outputs.to = <<<<97, 98>>>>

\* C5 as stated: 1 token left always yields a Score event, 7 tokens left
\* always yield a Transfer event.
C5_AlwaysYields ==
    /\ dret.remaining = 1
         => /\ dret.kind = "ok"
            /\ Len(dret.out[1].program_outputs.score) = 1
    /\ dret.remaining = 7
         => /\ dret.kind = "ok"
            /\ Len(dret.out[1].program_outputs.amount) = 1

\* C6: with neither 1 nor 7 tokens left after the fixed fields, deserialize
\* returns the error UnsupportedOutputShape to its caller and does not abort.
C6_ShapeErrorReturned ==
    (dret.kind # "none" /\ dret.remaining \notin {-1, 1, 7})
        => (dret.kind = "err" /\ dret.out = <<>>)

\* d starts with a count n, n + 1 words and a length
Framed(d) ==
    /\ d # <<>>
    /\ ParseUnsigned(d[1]) # -1
    /\ Len(d) >= ParseUnsigned(d[1]) + 3
    /\ ParseUnsigned(d[ParseUnsigned(d[1]) + 3]) # -1

\* C7: the byte-array decoder returns an AddressDecodeError value, and does
\* not abort, whenever a token it reads is no decimal integer, renders to an
\* odd number of hexadecimal digits, or decodes to bytes that are not UTF-8.
C7_AddressErrorReturned ==
    (bret.kind # "none"
     /\ \/ data[1] # <<>> /\ ParseUnsigned(data[1][1]) = -1
        \/ /\ Framed(data[1])
           /\ \E i \in 2..(ParseUnsigned(data[1][1]) + 2) : BadWord(data[1][i]))
        => bret.kind = "err"

\* the decoding of the words ws in order, zero-valued ones contributing nothing
RECURSIVE ConcatWords(_)
ConcatWords(ws) ==
    IF ws = <<>> THEN <<>>
    ELSE (IF ParseBigInt(ws[1]).mag = 0 THEN <<>> ELSE I_to_w(ws[1]).v)
         \o ConcatWords(Tail(ws))

LenTokens == {Zero, T1, T97, <<"3", "1">>, <<"+", "7">>}

\* C8: on a stream [n, w_0, ..., w_n, len, rest...] one run of the byte-array
\* decoder consumes those n + 3 tokens and leaves rest as it was; the string
\* it returns is the decodings of w_0..w_n in order, zero-valued tokens
\* contributing nothing, whatever the value of len.
C8_ConsumesFrame ==
    /\ bret.kind = "ok"
         => LET d == data[1]
                n == ParseUnsigned(d[1])
            IN  /\ Framed(d)
                /\ bret.data = SubSeq(d, n + 4, Len(d))
                /\ bret.word = ConcatWords(SubSeq(d, 2, n + 2))
                /\ \A t \in LenTokens :
                     LET r == DeserializeCairoBytesarray([d EXCEPT ![n + 3] = t])
                     IN  r.ok /\ r.word = bret.word /\ r.data = bret.data
    /\ (bret.kind # "none" /\ Framed(data[1])
        /\ \A i \in 2..(ParseUnsigned(data[1][1]) + 2) : ~BadWord(data[1][i]))
         => bret.kind = "ok"

C8_Witness ==
    /\ bret.kind = "ok"
    /\ data[1][1] = T1
    /\ bret.word = <<97, 98, 97>>
    /\ bret.data = <<T255>>

RECURSIVE Flatten(_)
Flatten(toks) == IF toks = <<>> THEN <<>> ELSE toks[1] \o Flatten(Tail(toks))

\* C9 as amended: before tokenizing, deserialize removes every '[' and ']' at
\* the start and at the end of the raw output, however many and in whatever
\* order, and nothing else: brackets inside the text stay and are part of the
\* tokens.
C9_TrimsAllBrackets ==
    dret.kind # "none"
        => LET in == input[1]
               t  == dret.trimmed
           IN  /\ t # <<>> => (~IsBracket(t[1]) /\ ~IsBracket(t[Len(t)]))
               /\ \E i \in 0..Len(in), j \in 0..Len(in) :
                     /\ i + j <= Len(in)
                     /\ t = SubSeq(in, i + 1, Len(in) - j)
                     /\ \A k \in 1..i : IsBracket(in[k])
                     /\ \A k \in (Len(in) - j + 1)..Len(in) : IsBracket(in[k])
               /\ Flatten(dret.tokens) = SelectSeq(t, LAMBDA c : ~IsSpace(c))

C9_Witness ==
    /\ dret.kind = "ok"
    /\ SubSeq(input[1], 1, 2) = <<"]", "[">>
    /\ Len(input[1]) - Len(dret.trimmed) = 4
    /\ dret.out[1].initial_state = <<91, 53, 93>>

\* C9 as stated: at most one leading '[' and at most one trailing ']' are
\* removed, any further bracket at either end stays in the text.
C9_TrimsOnePair ==
    dret.kind # "none" => dret.trimmed = TrimSingle(input[1])

\* C10: when deserialize returns a record the token vector is empty and the
\* tokens split, in order, into the three fixed fields, the origin and caller
\* byte arrays, tx_hash and the 1 or 7 remaining tokens; a Transfer record
\* comes only from a tail whose from and to word counts are both 0, and a
\* 7-token tail with a non-zero word count yields no record.
C10_AllConsumed ==
    /\ dret.kind = "ok"
         => LET no == ParseUnsigned(dret.tokens[4])
                nc == ParseUnsigned(dret.tokens[no + 7])
            IN  /\ dret.parts = <<>>
                /\ Len(dret.tokens) = 3 + (no + 3) + (nc + 3) + 1 + dret.remaining
                /\ dret.tail = SubSeq(dret.tokens, no + nc + 11, Len(dret.tokens))
                /\ dret.remaining = 7
                     => /\ ParseUnsigned(dret.tail[1]) = 0
                        /\ ParseUnsigned(dret.tail[4]) = 0
    /\ (dret.remaining = 7
        /\ (ParseUnsigned(dret.tail[1]) # 0 \/ ParseUnsigned(dret.tail[4]) # 0))
         => dret.kind = "panic"

C10_Witness ==
    /\ dret.kind = "ok"
    /\ dret.remaining = 7
    /\ dret.parts = <<>>
    /\ Len(dret.tokens) = 18

====
